---- MODULE Spec2Model ----
(***************************************************************************)
(* The service-request / service-offer lifecycle of commune's backend.     *)
(*                                                                         *)
(* The database tables service_requests and service_offers are the shared  *)
(* state.  Every HTTP handler is a sequence of database statements; each   *)
(* statement (a SELECT, an UPDATE, an INSERT, or one db.Transaction) is    *)
(* one atomic step, and steps of different calls interleave freely.  The   *)
(* local variables a handler keeps between its statements (the rows it     *)
(* read, its decoded input) are the call's record in calls.                *)
(*                                                                         *)
(* gorm semantics used below (gorm.io/gorm v1.31.1, backend/go.mod):       *)
(*  - both models embed gorm.Model, so db.Delete is a soft delete and      *)
(*    every First/Find/Update/Updates carries "deleted_at IS NULL";        *)
(*  - an UPDATE that matches no row is not an error;                       *)
(*  - db.Save writes every column of the struct it is given, and when its  *)
(*    UPDATE matches no row it falls back to INSERT .. ON CONFLICT DO      *)
(*    UPDATE of all columns.                                               *)
(*                                                                         *)
(* The sources hold each handler twice, once on gin and once on net/http   *)
(* (part_014 from lines 1 and 728, part_012 from lines 1 and 302);         *)
(* the two copies run the same statements, and the definitions below       *)
(* follow the gin copy.  POST and DELETE on /api/services (part_012) run   *)
(* the statements of createServiceRequest and deleteServiceRequest.        *)
(*                                                                         *)
(* Three specifications share the variables: Spec (the writers of          *)
(* service_requests and service_offers), SpecRead (the GET handlers over   *)
(* a populated store) and SpecJoin (the writers of join_requests and       *)
(* user_communities).                                                      *)
(*                                                                         *)
(* The trailing "reload with associations" of a handler changes no row;    *)
(* it is taken in the same step as the handler's last write and only       *)
(* decides the status code answered.                                       *)
(***************************************************************************)
EXTENDS Integers, Sequences, FiniteSets, Bags, TLC

\* ------------------------------------------------------------------ bounds
\* rows the tables may hold, calls that may be running at once, and the
\* number of client calls in a run
MaxRequests == 2
MaxOffers == 2
MaxCalls == 2
MaxOps == 5

\* ------------------------------------------------------------- the domain
\* users table: ids and their global role (models.go UserRole constants)
Role == <<"user", "admin", "super_admin">>
Users == DOMAIN Role

RoleSuperAdmin == "super_admin"
RoleAdmin == "admin"

\* status strings a client can send in a JSON body: the documented values
\* and one string outside them (the column is a free varchar(50))
RequestStatusInputs == {"open", "in_progress", "completed", "cancelled", "archived"}
OfferStatusInputs == {"pending", "accepted", "rejected", "withdrawn", "archived"}
\* a JSON body without the "status" key (the *string stays nil)
NoStatus == "nil"

RequestIds == 1..MaxRequests
\* offer_id 0 is what a body without offer_id decodes to
OfferIds == 0..MaxOffers

NoRow == [RequesterID |-> 0, Status |-> "", AcceptedOfferID |-> 0, Deleted |-> FALSE]

VARIABLES
    requests,   \* table service_requests (type ServiceRequest): rows, id = index
    offers,     \* table service_offers (type ServiceOffer): rows, id = index
    calls,      \* bag of handler invocations between two database statements
    resp,       \* what the last step answered to its client
    ops,        \* client calls issued so far
    joinRequests,     \* table join_requests (type JoinRequest): rows, id = index
    userCommunities   \* table user_communities: the set of its primary keys
                      \* <<user_id, community_id>>

vars == <<requests, offers, calls, resp, ops, joinRequests, userCommunities>>

\* resp is the answer the last step wrote: the handler, the HTTP status and the
\* "message" of the JSON body; NoResp when the step answered nothing (the call
\* is still running).  The message is kept where a handler answers one status
\* code for different reasons, and left empty elsewhere.
NoResp == [op |-> "none", code |-> "none", message |-> ""]

ReplyMsg(op, code, message) == [op |-> op, code |-> code, message |-> message]

Reply(op, code) == ReplyMsg(op, code, "")

\* ServiceRequest row (models.go)
ServiceRequest(requester, status, accepted) ==
    [RequesterID |-> requester, Status |-> status, AcceptedOfferID |-> accepted,
     Deleted |-> FALSE]

\* ServiceOffer row (models.go)
ServiceOffer(request, provider, status) ==
    [ServiceRequestID |-> request, ProviderID |-> provider, Status |-> status,
     Deleted |-> FALSE]

\* db.First(&request, id): the row exists and is not soft-deleted
RequestFound(id) == id \in DOMAIN requests /\ ~requests[id].Deleted
OfferFound(id) == id \in DOMAIN offers /\ ~offers[id].Deleted

\* a handler's locals between two statements; a local the remaining statements
\* of the handler never read again is left at 0 / NoStatus / NoRow (the
\* decoded input of updateServiceRequestHandler is kept next to the struct
\* it was applied to)
Call(op, pc, userID, requestID, offerID, input, row) ==
    [op |-> op, pc |-> pc, userID |-> userID, requestID |-> requestID,
     offerID |-> offerID, input |-> input, request |-> row]

InFlight == BagToSet(calls)
Suspend(c) == calls' = calls (+) SetToBag({c})
Resume(c, d) == calls' = (calls (-) SetToBag({c})) (+) SetToBag({d})
Finish(c) == calls' = calls (-) SetToBag({c})
CanStart == BagCardinality(calls) < MaxCalls

\* a client issues one more call
Issue == ops < MaxOps /\ ops' = ops + 1

Init ==
    /\ requests = <<>>
    /\ offers = <<>>
    /\ calls = EmptyBag
    /\ resp = NoResp
    /\ ops = 0
    /\ joinRequests = <<>>
    /\ userCommunities = {}

\* ------------------------------------------------- statements on the tables
\* UPDATE service_requests SET status = s WHERE id = ? AND deleted_at IS NULL
UpdateRequestStatus(id, s) ==
    [r \in DOMAIN requests |->
        IF r = id /\ ~requests[r].Deleted
        THEN [requests[r] EXCEPT !.Status = s]
        ELSE requests[r]]

\* UPDATE service_offers SET status = s WHERE id = ? AND deleted_at IS NULL
UpdateOfferStatus(id, s) ==
    [o \in DOMAIN offers |->
        IF o = id /\ ~offers[o].Deleted
        THEN [offers[o] EXCEPT !.Status = s]
        ELSE offers[o]]

\* db.Delete(&row): UPDATE .. SET deleted_at = now WHERE id = ? AND deleted_at IS NULL
SoftDelete(table, id) ==
    [i \in DOMAIN table |->
        IF i = id THEN [table[i] EXCEPT !.Deleted = TRUE] ELSE table[i]]

\* the trailing "reload with associations" of a handler: db.First on the row
\* it has just written; it answers 500 when the row is gone by then
ReloadRequest(table, id, code) ==
    IF id \in DOMAIN table /\ ~table[id].Deleted THEN code ELSE "StatusInternalServerError"

ReloadOffer(table, id, code) ==
    IF id \in DOMAIN table /\ ~table[id].Deleted THEN code ELSE "StatusInternalServerError"

\* mutant: no authorization check, every authenticated actor may edit
MayEditRequest_Anyone(userID, row) == TRUE

\* request.RequesterID != userID && userRole != RoleSuperAdmin && userRole != RoleAdmin
MayEditRequest(userID, row) ==
    ~(row.RequesterID # userID /\ Role[userID] # RoleSuperAdmin /\ Role[userID] # RoleAdmin)

\* ---------------------------------------------------- createServiceRequest
\* mutant: the required fields are not validated, the row is inserted anyway
createServiceRequest_NoValidation(userID, valid) ==
    /\ Issue
    /\ UNCHANGED <<joinRequests, userCommunities>>
    /\ UNCHANGED <<offers, calls>>
    /\ Len(requests) < MaxRequests
    /\ requests' = Append(requests, ServiceRequest(userID, "open", 0))
    /\ resp' = Reply("createServiceRequest", "StatusCreated")

createServiceRequest(userID, valid) ==
    /\ Issue
    /\ UNCHANGED <<joinRequests, userCommunities>>
    /\ UNCHANGED <<offers, calls>>
    /\ IF ~valid
       THEN /\ resp' = Reply("createServiceRequest", "StatusBadRequest")
            /\ UNCHANGED requests
       ELSE /\ Len(requests) < MaxRequests
            /\ requests' = Append(requests, ServiceRequest(userID, "open", 0))
            /\ resp' = Reply("createServiceRequest", "StatusCreated")

\* ------------------------------- updateServiceRequest (/api/service-requests)
updateServiceRequest_Read(userID, requestID, input) ==
    /\ Issue
    /\ UNCHANGED <<joinRequests, userCommunities>>
    /\ UNCHANGED <<requests, offers>>
    /\ IF ~RequestFound(requestID)
       THEN /\ resp' = Reply("updateServiceRequest", "StatusNotFound")
            /\ UNCHANGED calls
       ELSE IF ~MayEditRequest(userID, requests[requestID])
       THEN /\ resp' = Reply("updateServiceRequest", "StatusForbidden")
            /\ UNCHANGED calls
       ELSE /\ CanStart
            /\ Suspend(Call("updateServiceRequest", "write", 0, requestID, 0, input, NoRow))
            /\ resp' = NoResp

updateServiceRequest_Write(c) ==
    /\ UNCHANGED <<ops, joinRequests, userCommunities>>
    /\ c.op = "updateServiceRequest" /\ c.pc = "write"
    /\ requests' = IF c.input = NoStatus THEN requests
                   ELSE UpdateRequestStatus(c.requestID, c.input)
    /\ resp' = Reply("updateServiceRequest", ReloadRequest(requests', c.requestID, "StatusOK"))
    /\ Finish(c)
    /\ UNCHANGED offers

\* ------------------------------- updateServiceRequestHandler (/api/services)
validTransitions(status) ==
    CASE status = "open" -> {"in_progress", "cancelled"}
      [] status = "in_progress" -> {"completed", "cancelled"}
      [] status = "completed" -> {}
      [] status = "cancelled" -> {}

\* the keys of the validTransitions map
exists(status) == status \in {"open", "in_progress", "completed", "cancelled"}

\* the status block of the handler: "ok" and the status to store, or the error
StatusEdit(current, newStatus) ==
    IF ~exists(current)
    THEN [ok |-> FALSE, status |-> current, message |-> "Invalid current status"]
    ELSE IF ~(newStatus \in validTransitions(current)) /\ newStatus # current
    THEN [ok |-> FALSE, status |-> current, message |-> "Invalid status transition"]
    ELSE [ok |-> TRUE, status |-> newStatus, message |-> ""]

updateServiceRequestHandler_Read(userID, id, input) ==
    /\ Issue
    /\ UNCHANGED <<joinRequests, userCommunities>>
    /\ UNCHANGED <<requests, offers>>
    /\ IF ~RequestFound(id)
       THEN /\ resp' = Reply("updateServiceRequestHandler", "StatusNotFound")
            /\ UNCHANGED calls
       ELSE IF ~MayEditRequest(userID, requests[id])
       THEN /\ resp' = Reply("updateServiceRequestHandler", "StatusForbidden")
            /\ UNCHANGED calls
       ELSE IF input # NoStatus /\ ~StatusEdit(requests[id].Status, input).ok
       THEN /\ resp' = ReplyMsg("updateServiceRequestHandler", "StatusBadRequest",
                                StatusEdit(requests[id].Status, input).message)
            /\ UNCHANGED calls
       ELSE /\ CanStart
            /\ LET service == IF input = NoStatus THEN requests[id]
                              ELSE [requests[id] EXCEPT
                                      !.Status = StatusEdit(requests[id].Status, input).status]
               IN Suspend(Call("updateServiceRequestHandler", "save", 0, id, 0, input, service))
            /\ resp' = NoResp

\* db.Save(&service): every column of the struct read earlier is written back,
\* status and accepted_offer_id as they were read; deleted_at of the struct is
\* NULL, and the upsert fallback writes it too when the row has been
\* soft-deleted since
updateServiceRequestHandler_Save(c) ==
    /\ UNCHANGED <<ops, joinRequests, userCommunities>>
    /\ c.op = "updateServiceRequestHandler" /\ c.pc = "save"
    /\ requests' = [requests EXCEPT ![c.requestID] = c.request]
    /\ resp' = Reply("updateServiceRequestHandler", "StatusOK")
    /\ Finish(c)
    /\ UNCHANGED offers

\* ------------------------------------------------------ deleteServiceRequest
deleteServiceRequest_Read(userID, requestID) ==
    /\ Issue
    /\ UNCHANGED <<joinRequests, userCommunities>>
    /\ UNCHANGED <<requests, offers>>
    /\ IF ~RequestFound(requestID)
       THEN /\ resp' = Reply("deleteServiceRequest", "StatusNotFound")
            /\ UNCHANGED calls
       ELSE IF ~MayEditRequest(userID, requests[requestID])
       THEN /\ resp' = Reply("deleteServiceRequest", "StatusForbidden")
            /\ UNCHANGED calls
       ELSE /\ CanStart
            /\ Suspend(Call("deleteServiceRequest", "delete", 0, requestID, 0, NoStatus, NoRow))
            /\ resp' = NoResp

deleteServiceRequest_Delete(c) ==
    /\ UNCHANGED <<ops, joinRequests, userCommunities>>
    /\ c.op = "deleteServiceRequest" /\ c.pc = "delete"
    /\ requests' = SoftDelete(requests, c.requestID)
    /\ resp' = Reply("deleteServiceRequest", "StatusNoContent")
    /\ Finish(c)
    /\ UNCHANGED offers

\* -------------------------------------------------------- acceptServiceOffer
\* mutant: the authorization of the edit handlers (requester, admin or
\* super_admin) in the place of "requester only"
acceptServiceOffer_ReadRequest_AdminsToo(userID, requestID, offerID) ==
    /\ Issue
    /\ UNCHANGED <<joinRequests, userCommunities>>
    /\ UNCHANGED <<requests, offers>>
    /\ IF offerID = 0
       THEN /\ resp' = ReplyMsg("acceptServiceOffer", "StatusBadRequest",
                                "offer_id is required")
            /\ UNCHANGED calls
       ELSE IF ~RequestFound(requestID)
       THEN /\ resp' = ReplyMsg("acceptServiceOffer", "StatusNotFound",
                                "Service request not found")
            /\ UNCHANGED calls
       ELSE IF ~MayEditRequest(userID, requests[requestID])
       THEN /\ resp' = Reply("acceptServiceOffer", "StatusForbidden")
            /\ UNCHANGED calls
       ELSE /\ CanStart
            /\ Suspend(Call("acceptServiceOffer", "readOffer", 0, requestID, offerID,
                            NoStatus, requests[requestID]))
            /\ resp' = NoResp

acceptServiceOffer_ReadRequest(userID, requestID, offerID) ==
    /\ Issue
    /\ UNCHANGED <<joinRequests, userCommunities>>
    /\ UNCHANGED <<requests, offers>>
    /\ IF offerID = 0
       THEN /\ resp' = ReplyMsg("acceptServiceOffer", "StatusBadRequest",
                                "offer_id is required")
            /\ UNCHANGED calls
       ELSE IF ~RequestFound(requestID)
       THEN /\ resp' = ReplyMsg("acceptServiceOffer", "StatusNotFound",
                                "Service request not found")
            /\ UNCHANGED calls
       ELSE IF requests[requestID].RequesterID # userID
       THEN /\ resp' = Reply("acceptServiceOffer", "StatusForbidden")
            /\ UNCHANGED calls
       ELSE /\ CanStart
            /\ Suspend(Call("acceptServiceOffer", "readOffer", 0, requestID, offerID,
                            NoStatus, requests[requestID]))
            /\ resp' = NoResp

\* mutant: the offer is looked up but its parent request is not compared
\* with the request of the path
acceptServiceOffer_ReadOffer_NoParentCheck(c) ==
    /\ UNCHANGED <<ops, joinRequests, userCommunities>>
    /\ c.op = "acceptServiceOffer" /\ c.pc = "readOffer"
    /\ UNCHANGED <<requests, offers>>
    /\ IF ~OfferFound(c.offerID)
       THEN /\ resp' = ReplyMsg("acceptServiceOffer", "StatusNotFound", "Offer not found")
            /\ Finish(c)
       ELSE /\ Resume(c, [c EXCEPT !.pc = "tx"])
            /\ resp' = NoResp

acceptServiceOffer_ReadOffer(c) ==
    /\ UNCHANGED <<ops, joinRequests, userCommunities>>
    /\ c.op = "acceptServiceOffer" /\ c.pc = "readOffer"
    /\ UNCHANGED <<requests, offers>>
    /\ IF ~OfferFound(c.offerID)
       THEN /\ resp' = ReplyMsg("acceptServiceOffer", "StatusNotFound", "Offer not found")
            /\ Finish(c)
       ELSE IF offers[c.offerID].ServiceRequestID # c.requestID
       THEN /\ resp' = ReplyMsg("acceptServiceOffer", "StatusBadRequest",
                                "Offer does not belong to this request")
            /\ Finish(c)
       ELSE /\ Resume(c, [c EXCEPT !.pc = "tx"])
            /\ resp' = NoResp

\* the three statements of the transaction, on the tables as given
AcceptTxRequests(reqs, requestID, offerID) ==
    [r \in DOMAIN reqs |->
        IF r = requestID /\ ~reqs[r].Deleted
        THEN [reqs[r] EXCEPT !.AcceptedOfferID = offerID, !.Status = "in_progress"]
        ELSE reqs[r]]

AcceptTxOffers(offs, requestID, offerID) ==
    [o \in DOMAIN offs |->
        IF offs[o].Deleted THEN offs[o]
        ELSE IF o = offerID THEN [offs[o] EXCEPT !.Status = "accepted"]
        ELSE IF offs[o].ServiceRequestID = requestID
        THEN [offs[o] EXCEPT !.Status = "rejected"]
        ELSE offs[o]]

acceptServiceOffer_Tx(c) ==
    /\ UNCHANGED <<ops, joinRequests, userCommunities>>
    /\ c.op = "acceptServiceOffer" /\ c.pc = "tx"
    /\ requests' = AcceptTxRequests(requests, c.requestID, c.offerID)
    /\ offers' = AcceptTxOffers(offers, c.requestID, c.offerID)
    /\ resp' = LET code == ReloadRequest(requests', c.requestID, "StatusOK")
               IN ReplyMsg("acceptServiceOffer", code,
                           IF code = "StatusOK" THEN ""
                           ELSE "Failed to load updated request")
    /\ Finish(c)

\* db.Transaction returns an error: one of the three statements, or the
\* commit, failed in the store.  gorm rolls the transaction back, so whatever
\* the statements before the failing one wrote is undone, and the handler
\* answers 500 without reloading.  failed is the number of the statement
\* that returned the error, 4 for the commit.
Rollback(before, written) == before

acceptServiceOffer_TxFails(c, failed) ==
    /\ UNCHANGED <<ops, joinRequests, userCommunities>>
    /\ c.op = "acceptServiceOffer" /\ c.pc = "tx"
    /\ LET reqs == IF failed > 1 THEN AcceptTxRequests(requests, c.requestID, c.offerID)
                   ELSE requests
           offs == IF failed = 3 THEN UpdateOfferStatus(c.offerID, "accepted")
                   ELSE IF failed = 4 THEN AcceptTxOffers(offers, c.requestID, c.offerID)
                   ELSE offers
       IN /\ requests' = Rollback(requests, reqs)
          /\ offers' = Rollback(offers, offs)
    /\ resp' = ReplyMsg("acceptServiceOffer", "StatusInternalServerError",
                        "Failed to accept offer")
    /\ Finish(c)

\* -------------------------------------------------------- createServiceOffer
\* rows the createServiceOffer calls in flight are still going to insert
PendingInserts ==
    LET creating == {c \in InFlight : c.op = "createServiceOffer"}
    IN BagCardinality([c \in creating |-> calls[c]])

\* mutant: only service_request_id is required, an empty description passes
createServiceOffer_Read_NoDescriptionCheck(userID, requestID, description) ==
    /\ Issue
    /\ UNCHANGED <<joinRequests, userCommunities>>
    /\ UNCHANGED <<requests, offers>>
    /\ IF requestID = 0
       THEN /\ resp' = ReplyMsg("createServiceOffer", "StatusBadRequest",
                                "service_request_id and description are required")
            /\ UNCHANGED calls
       ELSE IF ~RequestFound(requestID)
       THEN /\ resp' = Reply("createServiceOffer", "StatusNotFound")
            /\ UNCHANGED calls
       ELSE IF requests[requestID].Status # "open"
       THEN /\ resp' = ReplyMsg("createServiceOffer", "StatusBadRequest",
                                "Cannot create offer for non-open requests")
            /\ UNCHANGED calls
       ELSE /\ CanStart
            /\ Len(offers) + PendingInserts < MaxOffers
            /\ Suspend(Call("createServiceOffer", "create", userID, requestID, 0, NoStatus, NoRow))
            /\ resp' = NoResp

\* mutant: the request is looked up but its status is not compared with "open"
createServiceOffer_Read_AnyStatus(userID, requestID, description) ==
    /\ Issue
    /\ UNCHANGED <<joinRequests, userCommunities>>
    /\ UNCHANGED <<requests, offers>>
    /\ IF requestID = 0 \/ ~description
       THEN /\ resp' = ReplyMsg("createServiceOffer", "StatusBadRequest",
                                "service_request_id and description are required")
            /\ UNCHANGED calls
       ELSE IF ~RequestFound(requestID)
       THEN /\ resp' = Reply("createServiceOffer", "StatusNotFound")
            /\ UNCHANGED calls
       ELSE /\ CanStart
            /\ Len(offers) + PendingInserts < MaxOffers
            /\ Suspend(Call("createServiceOffer", "create", userID, requestID, 0, NoStatus, NoRow))
            /\ resp' = NoResp

createServiceOffer_Read(userID, requestID, description) ==
    /\ Issue
    /\ UNCHANGED <<joinRequests, userCommunities>>
    /\ UNCHANGED <<requests, offers>>
    /\ IF requestID = 0 \/ ~description
       THEN /\ resp' = ReplyMsg("createServiceOffer", "StatusBadRequest",
                                "service_request_id and description are required")
            /\ UNCHANGED calls
       ELSE IF ~RequestFound(requestID)
       THEN /\ resp' = Reply("createServiceOffer", "StatusNotFound")
            /\ UNCHANGED calls
       ELSE IF requests[requestID].Status # "open"
       THEN /\ resp' = ReplyMsg("createServiceOffer", "StatusBadRequest",
                                "Cannot create offer for non-open requests")
            /\ UNCHANGED calls
       ELSE /\ CanStart
            /\ Len(offers) + PendingInserts < MaxOffers
            /\ Suspend(Call("createServiceOffer", "create", userID, requestID, 0, NoStatus, NoRow))
            /\ resp' = NoResp

\* mutant: the insert is skipped when the provider already has an offer on
\* the request (a uniqueness rule on provider and request)
createServiceOffer_Create_Deduplicated(c) ==
    /\ UNCHANGED <<ops, joinRequests, userCommunities>>
    /\ c.op = "createServiceOffer" /\ c.pc = "create"
    /\ IF \E o \in DOMAIN offers :
             /\ ~offers[o].Deleted
             /\ offers[o].ServiceRequestID = c.requestID
             /\ offers[o].ProviderID = c.userID
       THEN /\ offers' = offers
            /\ resp' = Reply("createServiceOffer", "StatusInternalServerError")
       ELSE /\ offers' = Append(offers, ServiceOffer(c.requestID, c.userID, "pending"))
            /\ resp' = Reply("createServiceOffer", "StatusCreated")
    /\ Finish(c)
    /\ UNCHANGED requests

createServiceOffer_Create(c) ==
    /\ UNCHANGED <<ops, joinRequests, userCommunities>>
    /\ c.op = "createServiceOffer" /\ c.pc = "create"
    /\ offers' = Append(offers, ServiceOffer(c.requestID, c.userID, "pending"))
    /\ resp' = Reply("createServiceOffer", "StatusCreated")
    /\ Finish(c)
    /\ UNCHANGED requests

\* ------------------------------------------------------ withdrawServiceOffer
withdrawServiceOffer_Read(userID, offerID) ==
    /\ Issue
    /\ UNCHANGED <<joinRequests, userCommunities>>
    /\ UNCHANGED <<requests, offers>>
    /\ IF ~OfferFound(offerID)
       THEN /\ resp' = Reply("withdrawServiceOffer", "StatusNotFound")
            /\ UNCHANGED calls
       ELSE IF offers[offerID].ProviderID # userID
       THEN /\ resp' = Reply("withdrawServiceOffer", "StatusForbidden")
            /\ UNCHANGED calls
       ELSE IF offers[offerID].Status = "accepted"
       THEN /\ resp' = Reply("withdrawServiceOffer", "StatusBadRequest")
            /\ UNCHANGED calls
       ELSE /\ CanStart
            /\ Suspend(Call("withdrawServiceOffer", "write", 0, 0, offerID, NoStatus, NoRow))
            /\ resp' = NoResp

\* mutant: the UPDATE is keyed on the offer's request in the place of its id
withdrawServiceOffer_Write_WholeRequest(c) ==
    /\ UNCHANGED <<ops, joinRequests, userCommunities>>
    /\ c.op = "withdrawServiceOffer" /\ c.pc = "write"
    /\ offers' = [o \in DOMAIN offers |->
                    IF /\ ~offers[o].Deleted
                       /\ offers[o].ServiceRequestID = offers[c.offerID].ServiceRequestID
                    THEN [offers[o] EXCEPT !.Status = "withdrawn"]
                    ELSE offers[o]]
    /\ resp' = Reply("withdrawServiceOffer", ReloadOffer(offers', c.offerID, "StatusOK"))
    /\ Finish(c)
    /\ UNCHANGED requests

withdrawServiceOffer_Write(c) ==
    /\ UNCHANGED <<ops, joinRequests, userCommunities>>
    /\ c.op = "withdrawServiceOffer" /\ c.pc = "write"
    /\ offers' = UpdateOfferStatus(c.offerID, "withdrawn")
    /\ resp' = Reply("withdrawServiceOffer", ReloadOffer(offers', c.offerID, "StatusOK"))
    /\ Finish(c)
    /\ UNCHANGED requests

\* -------------------------------------------------------- updateServiceOffer
updateServiceOffer_Read(userID, offerID, input) ==
    /\ Issue
    /\ UNCHANGED <<joinRequests, userCommunities>>
    /\ UNCHANGED <<requests, offers>>
    /\ IF ~OfferFound(offerID)
       THEN /\ resp' = Reply("updateServiceOffer", "StatusNotFound")
            /\ UNCHANGED calls
       ELSE IF offers[offerID].ProviderID # userID
       THEN /\ resp' = Reply("updateServiceOffer", "StatusForbidden")
            /\ UNCHANGED calls
       ELSE /\ CanStart
            /\ Suspend(Call("updateServiceOffer", "write", 0, 0, offerID, input, NoRow))
            /\ resp' = NoResp

updateServiceOffer_Write(c) ==
    /\ UNCHANGED <<ops, joinRequests, userCommunities>>
    /\ c.op = "updateServiceOffer" /\ c.pc = "write"
    /\ offers' = IF c.input = NoStatus THEN offers
                 ELSE UpdateOfferStatus(c.offerID, c.input)
    /\ resp' = Reply("updateServiceOffer", ReloadOffer(offers', c.offerID, "StatusOK"))
    /\ Finish(c)
    /\ UNCHANGED requests

\* -------------------------------------------------------- deleteServiceOffer
deleteServiceOffer_Read(userID, offerID) ==
    /\ Issue
    /\ UNCHANGED <<joinRequests, userCommunities>>
    /\ UNCHANGED <<requests, offers>>
    /\ IF ~OfferFound(offerID)
       THEN /\ resp' = Reply("deleteServiceOffer", "StatusNotFound")
            /\ UNCHANGED calls
       ELSE IF offers[offerID].ProviderID # userID
       THEN /\ resp' = Reply("deleteServiceOffer", "StatusForbidden")
            /\ UNCHANGED calls
       ELSE IF offers[offerID].Status = "accepted"
       THEN /\ resp' = Reply("deleteServiceOffer", "StatusBadRequest")
            /\ UNCHANGED calls
       ELSE /\ CanStart
            /\ Suspend(Call("deleteServiceOffer", "delete", 0, 0, offerID, NoStatus, NoRow))
            /\ resp' = NoResp

deleteServiceOffer_Delete(c) ==
    /\ UNCHANGED <<ops, joinRequests, userCommunities>>
    /\ c.op = "deleteServiceOffer" /\ c.pc = "delete"
    /\ offers' = SoftDelete(offers, c.offerID)
    /\ resp' = Reply("deleteServiceOffer", "StatusNoContent")
    /\ Finish(c)
    /\ UNCHANGED requests

\* ------------------------------------------------------------ specification
Next ==
    \/ \E u \in Users, valid \in BOOLEAN : createServiceRequest(u, valid)
    \/ \E u \in Users, r \in RequestIds, s \in RequestStatusInputs \cup {NoStatus} :
          updateServiceRequest_Read(u, r, s)
    \/ \E c \in InFlight : updateServiceRequest_Write(c)
    \/ \E u \in Users, r \in RequestIds, s \in RequestStatusInputs \cup {NoStatus} :
          updateServiceRequestHandler_Read(u, r, s)
    \/ \E c \in InFlight : updateServiceRequestHandler_Save(c)
    \/ \E u \in Users, r \in RequestIds : deleteServiceRequest_Read(u, r)
    \/ \E c \in InFlight : deleteServiceRequest_Delete(c)
    \/ \E u \in Users, r \in RequestIds, o \in OfferIds : acceptServiceOffer_ReadRequest(u, r, o)
    \/ \E c \in InFlight : acceptServiceOffer_ReadOffer(c)
    \/ \E c \in InFlight : acceptServiceOffer_Tx(c)
    \/ \E c \in InFlight, failed \in 1..4 : acceptServiceOffer_TxFails(c, failed)
    \/ \E u \in Users, r \in 0..MaxRequests, d \in BOOLEAN : createServiceOffer_Read(u, r, d)
    \/ \E c \in InFlight : createServiceOffer_Create(c)
    \/ \E u \in Users, o \in 1..MaxOffers : withdrawServiceOffer_Read(u, o)
    \/ \E c \in InFlight : withdrawServiceOffer_Write(c)
    \/ \E u \in Users, o \in 1..MaxOffers, s \in OfferStatusInputs \cup {NoStatus} :
          updateServiceOffer_Read(u, o, s)
    \/ \E c \in InFlight : updateServiceOffer_Write(c)
    \/ \E u \in Users, o \in 1..MaxOffers : deleteServiceOffer_Read(u, o)
    \/ \E c \in InFlight : deleteServiceOffer_Delete(c)

Spec == Init /\ [][Next]_vars

\* ============================================================ the read paths
\* GET handlers.  They keep nothing between two calls, so a behaviour of
\* SpecRead is a store and one read of it.  The rows of service_requests carry
\* here the columns the filters read besides status: category, community_id,
\* title and description.  A text is a sequence of one-character strings.

\* rows a table of SpecRead may hold
MaxListed == 2
MaxListedOffers == 1

\* the database the build connects to (initDatabase): PostgreSQL when the
\* DB_* variables are set, SQLite otherwise
Drivers == {"sqlite", "postgres"}

Categories == {"Plumbing", "Garden"}
Communities == {1, 2}
Texts ==
    {[Title |-> <<"F", "i", "x">>, Description |-> <<"t", "a", "p">>],
     [Title |-> <<"t", "a", "p">>, Description |-> <<"f", "i", "x">>]}

\* query-string values: "" and <<>> and 0 are an absent parameter
CategoryQueries == {"", "Plumbing"}
StatusQueries == {"", "open"}
CommunityQueries == {0, 1}
SearchQueries == {<<>>, <<"f", "i">>, <<"F">>, <<"_">>}

ListedRequest(status, category, community, text, deleted) ==
    [ServiceRequest(1, status, 0) EXCEPT !.Deleted = deleted]
        @@ [Category |-> category, CommunityID |-> community,
            Title |-> text.Title, Description |-> text.Description]

ListedRequests ==
    {ListedRequest(s, c, m, t, d) :
        s \in {"open", "cancelled"}, c \in Categories, m \in Communities,
        t \in Texts, d \in BOOLEAN}

ListedOffers ==
    {[ServiceOffer(1, p, "pending") EXCEPT !.Deleted = d] : p \in {1, 2}, d \in BOOLEAN}

\* all sequences over S of length at most n
SeqUpTo(S, n) == UNION {[1..k -> S] : k \in 0..n}

ReplyBody(op, code, body) ==
    [op |-> op, code |-> code, message |-> "", body |-> body]

InitRead ==
    /\ requests \in SeqUpTo(ListedRequests, MaxListed)
    /\ offers \in SeqUpTo(ListedOffers, MaxListedOffers)
    /\ calls = EmptyBag
    /\ resp = NoResp
    /\ ops = 0
    /\ joinRequests = <<>>
    /\ userCommunities = {}

\* one GET call; it writes to no table
Get ==
    /\ ops = 0 /\ ops' = 1
    /\ UNCHANGED <<requests, offers, calls, joinRequests, userCommunities>>

\* query.Order("created_at DESC").Find(&rows): the ids of the rows of table
\* that are not soft-deleted and satisfy the Where clauses (where[i] tells
\* whether row i does), newest first (created_at grows with the id)
Find(table, where) ==
    LET newest[i \in 0..Len(table)] ==
            IF i = 0 THEN <<>>
            ELSE IF ~table[i].Deleted /\ where[i]
                 THEN <<i>> \o newest[i - 1]
                 ELSE newest[i - 1]
    IN newest[Len(table)]

\* the characters LIKE compares as equal: SQLite's LIKE ignores the case of
\* ASCII letters, PostgreSQL's LIKE does not (Fold covers the capitals that
\* occur in Texts and SearchQueries)
Fold(ch) ==
    CASE ch = "F" -> "f"
      [] ch = "T" -> "t"
      [] OTHER -> ch

SameChar(driver, a, b) == IF driver = "sqlite" THEN Fold(a) = Fold(b) ELSE a = b

\* text LIKE pattern: % matches any run of characters, _ any one character
RECURSIVE Like(_, _, _)
Like(driver, text, pattern) ==
    IF pattern = <<>> THEN text = <<>>
    ELSE IF Head(pattern) = "%"
    THEN \/ Like(driver, text, Tail(pattern))
         \/ text # <<>> /\ Like(driver, Tail(text), pattern)
    ELSE /\ text # <<>>
         /\ Head(pattern) = "_" \/ SameChar(driver, Head(text), Head(pattern))
         /\ Like(driver, Tail(text), Tail(pattern))

\* GET /api/services
getServicesHandler(category, status, communityID, search, driver) ==
    /\ Get
    /\ LET searchPattern == <<"%">> \o search \o <<"%">>
           Where(row) ==
               /\ category # "" => row.Category = category
               /\ status # "" => row.Status = status
               /\ communityID # 0 => row.CommunityID = communityID
               /\ search # <<>> =>
                     \/ Like(driver, row.Title, searchPattern)
                     \/ Like(driver, row.Description, searchPattern)
       IN resp' = ReplyBody("getServicesHandler", "StatusOK", Find(requests, [i \in DOMAIN requests |-> Where(requests[i])]))

\* GET /api/services/{id}
getServiceByIDHandler(id) ==
    /\ Get
    /\ resp' = IF RequestFound(id)
               THEN ReplyBody("getServiceByIDHandler", "StatusOK", <<id>>)
               ELSE ReplyBody("getServiceByIDHandler", "StatusNotFound", <<>>)

\* GET /api/service-requests: the handler reads community_id, status and
\* category from the query string; whatever else the query string holds,
\* a search parameter included, it never looks at
listServiceRequests(communityID, status, category, search) ==
    /\ Get
    /\ LET Where(row) ==
               /\ communityID # 0 => row.CommunityID = communityID
               /\ status # "" => row.Status = status
               /\ category # "" => row.Category = category
       IN resp' = ReplyBody("listServiceRequests", "StatusOK", Find(requests, [i \in DOMAIN requests |-> Where(requests[i])]))

\* a read that counts its views in the row it returns
getServiceRequest_CountsViews(requestID) ==
    /\ ops = 0 /\ ops' = 1
    /\ UNCHANGED <<offers, calls, joinRequests, userCommunities>>
    /\ requests' = IF RequestFound(requestID)
                   THEN [requests EXCEPT ![requestID].RequesterID = 2]
                   ELSE requests
    /\ resp' = IF RequestFound(requestID)
               THEN ReplyBody("getServiceRequest", "StatusOK", <<requestID>>)
               ELSE ReplyBody("getServiceRequest", "StatusNotFound", <<>>)

\* GET /api/service-requests/{id}
getServiceRequest(requestID) ==
    /\ Get
    /\ resp' = IF RequestFound(requestID)
               THEN ReplyBody("getServiceRequest", "StatusOK", <<requestID>>)
               ELSE ReplyBody("getServiceRequest", "StatusNotFound", <<>>)

\* GET /api/service-offers
listServiceOffers(userID, serviceRequestID, myOffers, providerID) ==
    /\ Get
    /\ LET Where(row) ==
               /\ serviceRequestID # 0 => row.ServiceRequestID = serviceRequestID
               /\ myOffers => row.ProviderID = userID
               /\ providerID # 0 => row.ProviderID = providerID
       IN resp' = ReplyBody("listServiceOffers", "StatusOK", Find(offers, [i \in DOMAIN offers |-> Where(offers[i])]))

\* GET /api/service-offers/{id}
getServiceOffer(offerID) ==
    /\ Get
    /\ resp' = IF OfferFound(offerID)
               THEN ReplyBody("getServiceOffer", "StatusOK", <<offerID>>)
               ELSE ReplyBody("getServiceOffer", "StatusNotFound", <<>>)

NextRead ==
    \/ \E category \in CategoryQueries, status \in StatusQueries,
          communityID \in CommunityQueries, search \in SearchQueries, driver \in Drivers :
          getServicesHandler(category, status, communityID, search, driver)
    \/ \E id \in 1..MaxListed : getServiceByIDHandler(id)
    \/ \E communityID \in CommunityQueries, status \in StatusQueries,
          category \in CategoryQueries, search \in SearchQueries :
          listServiceRequests(communityID, status, category, search)
    \/ \E id \in 1..MaxListed : getServiceRequest(id)
    \/ \E u \in Users, r \in 0..MaxListed, mine \in BOOLEAN, p \in {0, 1, 2} :
          listServiceOffers(u, r, mine, p)
    \/ \E id \in 1..(MaxListedOffers + 1) : getServiceOffer(id)

SpecRead == InitRead /\ [][NextRead]_vars

\* ============================================================ join requests
\* The tables join_requests and user_communities and the handlers that write
\* them.  Each database statement of a handler is one step, as above;
\* user_communities has the primary key (user_id, community_id), so an INSERT
\* of a key the table holds fails.  No handler deletes a join request.

\* rows the table join_requests may hold
MaxJoinRequests == 2

\* the communities table: one community; a call may also name community 2,
\* which does not exist, or leave communityId out (0)
CommunityIds == {1}
CommunityInputs == {0, 1, 2}

\* JoinRequest row (models.go)
JoinRequest(userID, communityID, status) ==
    [UserID |-> userID, CommunityID |-> communityID, Status |-> status]

\* db.First(&joinRequest, requestID)
JoinRequestFound(id) == id \in DOMAIN joinRequests

\* requireRole(db, RoleSuperAdmin, RoleAdmin)
IsAdmin(userID) == Role[userID] \in {RoleSuperAdmin, RoleAdmin}

\* the locals of a join-request or membership handler between two statements
JoinCall(op, pc, userID, communityID, requestID, joinRequest) ==
    [op |-> op, pc |-> pc, userID |-> userID, communityID |-> communityID,
     requestID |-> requestID, joinRequest |-> joinRequest]

NoJoinRequest == JoinRequest(0, 0, "")

\* db.Save(&joinRequest): every column of the struct is written to its row
SaveJoinRequest(id, joinRequest) == [joinRequests EXCEPT ![id] = joinRequest]

\* ---------------------------------------------------- createJoinRequestHandler
\* community lookup and "already a member" check
createJoinRequestHandler_CheckMember(userID, communityID) ==
    /\ Issue
    /\ UNCHANGED <<requests, offers, joinRequests, userCommunities>>
    /\ IF communityID = 0
       THEN /\ resp' = ReplyMsg("createJoinRequestHandler", "StatusBadRequest",
                                "Community ID is required")
            /\ UNCHANGED calls
       ELSE IF communityID \notin CommunityIds
       THEN /\ resp' = ReplyMsg("createJoinRequestHandler", "StatusNotFound",
                                "Community not found")
            /\ UNCHANGED calls
       ELSE IF <<userID, communityID>> \in userCommunities
       THEN /\ resp' = ReplyMsg("createJoinRequestHandler", "StatusConflict",
                                "You are already a member of this community")
            /\ UNCHANGED calls
       ELSE /\ CanStart
            /\ Suspend(JoinCall("createJoinRequestHandler", "checkPending",
                                userID, communityID, 0, NoJoinRequest))
            /\ resp' = NoResp

\* "already a pending request" check
createJoinRequestHandler_CheckPending(c) ==
    /\ c.op = "createJoinRequestHandler" /\ c.pc = "checkPending"
    /\ UNCHANGED <<requests, offers, ops, joinRequests, userCommunities>>
    /\ IF \E i \in DOMAIN joinRequests :
              joinRequests[i] = JoinRequest(c.userID, c.communityID, "pending")
       THEN /\ resp' = ReplyMsg("createJoinRequestHandler", "StatusConflict",
                                "You already have a pending request for this community")
            /\ Finish(c)
       ELSE /\ resp' = NoResp
            /\ Resume(c, [c EXCEPT !.pc = "create"])

\* db.Create(&joinRequest)
createJoinRequestHandler_Create(c) ==
    /\ c.op = "createJoinRequestHandler" /\ c.pc = "create"
    /\ Len(joinRequests) < MaxJoinRequests
    /\ UNCHANGED <<requests, offers, ops, userCommunities>>
    /\ joinRequests' = Append(joinRequests, JoinRequest(c.userID, c.communityID, "pending"))
    /\ resp' = Reply("createJoinRequestHandler", "StatusCreated")
    /\ Finish(c)

\* --------------------------------------------------- approveJoinRequestHandler
approveJoinRequestHandler_Read(userID, requestID) ==
    /\ Issue
    /\ UNCHANGED <<requests, offers, joinRequests, userCommunities>>
    /\ IF ~IsAdmin(userID)
       THEN /\ resp' = ReplyMsg("approveJoinRequestHandler", "StatusForbidden",
                                "Insufficient permissions")
            /\ UNCHANGED calls
       ELSE IF ~JoinRequestFound(requestID)
       THEN /\ resp' = ReplyMsg("approveJoinRequestHandler", "StatusNotFound",
                                "Join request not found")
            /\ UNCHANGED calls
       ELSE IF joinRequests[requestID].Status # "pending"
       THEN /\ resp' = ReplyMsg("approveJoinRequestHandler", "StatusBadRequest",
                                "This request has already been processed")
            /\ UNCHANGED calls
       ELSE /\ CanStart
            /\ Suspend(JoinCall("approveJoinRequestHandler", "save", userID, 0,
                                requestID, joinRequests[requestID]))
            /\ resp' = NoResp

\* joinRequest.Status = "approved"; db.Save(&joinRequest)
approveJoinRequestHandler_Save(c) ==
    /\ c.op = "approveJoinRequestHandler" /\ c.pc = "save"
    /\ UNCHANGED <<requests, offers, ops, userCommunities>>
    /\ LET joinRequest == [c.joinRequest EXCEPT !.Status = "approved"]
       IN /\ joinRequests' = SaveJoinRequest(c.requestID, joinRequest)
          /\ Resume(c, [c EXCEPT !.pc = "create", !.joinRequest = joinRequest])
    /\ resp' = NoResp

\* db.Create(&userCommunity): it fails when the table holds the key already,
\* and may fail for a reason of the database's own (failed)
approveJoinRequestHandler_Create(c, failed) ==
    /\ c.op = "approveJoinRequestHandler" /\ c.pc = "create"
    /\ UNCHANGED <<requests, offers, ops, joinRequests>>
    /\ LET key == <<c.joinRequest.UserID, c.joinRequest.CommunityID>>
       IN IF failed \/ key \in userCommunities
          THEN /\ UNCHANGED userCommunities
               /\ resp' = NoResp
               /\ Resume(c, [c EXCEPT !.pc = "revert"])
          ELSE /\ userCommunities' = userCommunities \cup {key}
               /\ resp' = Reply("approveJoinRequestHandler", "StatusOK")
               /\ Finish(c)

\* joinRequest.Status = "pending"; db.Save(&joinRequest), and the 500 answer
approveJoinRequestHandler_Revert(c) ==
    /\ c.op = "approveJoinRequestHandler" /\ c.pc = "revert"
    /\ UNCHANGED <<requests, offers, ops, userCommunities>>
    /\ joinRequests' = SaveJoinRequest(c.requestID, [c.joinRequest EXCEPT !.Status = "pending"])
    /\ resp' = ReplyMsg("approveJoinRequestHandler", "StatusInternalServerError",
                        "Failed to add user to community")
    /\ Finish(c)

\* ---------------------------------------------------- rejectJoinRequestHandler
rejectJoinRequestHandler_Read(userID, requestID) ==
    /\ Issue
    /\ UNCHANGED <<requests, offers, joinRequests, userCommunities>>
    /\ IF ~IsAdmin(userID)
       THEN /\ resp' = ReplyMsg("rejectJoinRequestHandler", "StatusForbidden",
                                "Insufficient permissions")
            /\ UNCHANGED calls
       ELSE IF ~JoinRequestFound(requestID)
       THEN /\ resp' = ReplyMsg("rejectJoinRequestHandler", "StatusNotFound",
                                "Join request not found")
            /\ UNCHANGED calls
       ELSE IF joinRequests[requestID].Status # "pending"
       THEN /\ resp' = ReplyMsg("rejectJoinRequestHandler", "StatusBadRequest",
                                "This request has already been processed")
            /\ UNCHANGED calls
       ELSE /\ CanStart
            /\ Suspend(JoinCall("rejectJoinRequestHandler", "save", userID, 0,
                                requestID, joinRequests[requestID]))
            /\ resp' = NoResp

\* joinRequest.Status = "rejected"; db.Save(&joinRequest)
rejectJoinRequestHandler_Save(c) ==
    /\ c.op = "rejectJoinRequestHandler" /\ c.pc = "save"
    /\ UNCHANGED <<requests, offers, ops, userCommunities>>
    /\ joinRequests' = SaveJoinRequest(c.requestID, [c.joinRequest EXCEPT !.Status = "rejected"])
    /\ resp' = Reply("rejectJoinRequestHandler", "StatusOK")
    /\ Finish(c)

\* ------------------------ addCommunityMemberHandler, removeCommunityMemberHandler
\* the other writers of user_communities (communities.go)
addCommunityMemberHandler_Check(adminID, userID, communityID) ==
    /\ Issue
    /\ UNCHANGED <<requests, offers, joinRequests, userCommunities>>
    /\ IF ~IsAdmin(adminID)
       THEN /\ resp' = ReplyMsg("addCommunityMemberHandler", "StatusForbidden",
                                "Insufficient permissions")
            /\ UNCHANGED calls
       ELSE IF communityID \notin CommunityIds
       THEN /\ resp' = ReplyMsg("addCommunityMemberHandler", "StatusNotFound",
                                "Community not found")
            /\ UNCHANGED calls
       ELSE IF <<userID, communityID>> \in userCommunities
       THEN /\ resp' = ReplyMsg("addCommunityMemberHandler", "StatusConflict",
                                "User is already a member of this community")
            /\ UNCHANGED calls
       ELSE /\ CanStart
            /\ Suspend(JoinCall("addCommunityMemberHandler", "create", userID,
                                communityID, 0, NoJoinRequest))
            /\ resp' = NoResp

\* db.Create(&userCommunity)
addCommunityMemberHandler_Create(c) ==
    /\ c.op = "addCommunityMemberHandler" /\ c.pc = "create"
    /\ UNCHANGED <<requests, offers, ops, joinRequests>>
    /\ IF <<c.userID, c.communityID>> \in userCommunities
       THEN /\ UNCHANGED userCommunities
            /\ resp' = ReplyMsg("addCommunityMemberHandler", "StatusInternalServerError",
                                "Failed to add member")
       ELSE /\ userCommunities' = userCommunities \cup {<<c.userID, c.communityID>>}
            /\ resp' = Reply("addCommunityMemberHandler", "StatusCreated")
    /\ Finish(c)

\* db.Where("user_id = ? AND community_id = ?", ..).Delete(&UserCommunity{})
removeCommunityMemberHandler(adminID, userID, communityID) ==
    /\ Issue
    /\ UNCHANGED <<requests, offers, joinRequests, calls>>
    /\ IF ~IsAdmin(adminID)
       THEN /\ resp' = ReplyMsg("removeCommunityMemberHandler", "StatusForbidden",
                                "Insufficient permissions")
            /\ UNCHANGED userCommunities
       ELSE IF <<userID, communityID>> \notin userCommunities
       THEN /\ resp' = ReplyMsg("removeCommunityMemberHandler", "StatusNotFound",
                                "Member not found")
            /\ UNCHANGED userCommunities
       ELSE /\ userCommunities' = userCommunities \ {<<userID, communityID>>}
            /\ resp' = Reply("removeCommunityMemberHandler", "StatusOK")

NextJoin ==
    \/ \E u \in Users, m \in CommunityInputs : createJoinRequestHandler_CheckMember(u, m)
    \/ \E c \in InFlight : createJoinRequestHandler_CheckPending(c)
    \/ \E c \in InFlight : createJoinRequestHandler_Create(c)
    \/ \E u \in Users, id \in 1..MaxJoinRequests : approveJoinRequestHandler_Read(u, id)
    \/ \E c \in InFlight : approveJoinRequestHandler_Save(c)
    \/ \E c \in InFlight, failed \in BOOLEAN : approveJoinRequestHandler_Create(c, failed)
    \/ \E c \in InFlight : approveJoinRequestHandler_Revert(c)
    \/ \E u \in Users, id \in 1..MaxJoinRequests : rejectJoinRequestHandler_Read(u, id)
    \/ \E c \in InFlight : rejectJoinRequestHandler_Save(c)
    \/ \E a \in Users, u \in Users, m \in CommunityIds : addCommunityMemberHandler_Check(a, u, m)
    \/ \E c \in InFlight : addCommunityMemberHandler_Create(c)
    \/ \E a \in Users, u \in Users, m \in CommunityIds : removeCommunityMemberHandler(a, u, m)

SpecJoin == Init /\ [][NextJoin]_vars

\* ================================================================== claims
\* the transition table of the status guard, as pairs <<from, to>>
TransitionTable ==
    {<<"open", "in_progress">>, <<"open", "cancelled">>,
     <<"in_progress", "completed">>, <<"in_progress", "cancelled">>}

ErrorCodes ==
    {"StatusBadRequest", "StatusForbidden", "StatusNotFound", "StatusInternalServerError"}

\* the non-deleted offers of request r
OffersOf(r) == {o \in DOMAIN offers : ~offers[o].Deleted /\ offers[o].ServiceRequestID = r}

\* C1: every non-deleted request has an accepted offer id exactly when its
\* status is in_progress or completed.
C1_AcceptedIffInProgressOrCompleted ==
    \A r \in DOMAIN requests :
        ~requests[r].Deleted =>
            ((requests[r].AcceptedOfferID # 0) <=>
                (requests[r].Status \in {"in_progress", "completed"}))

\* C2: no request has two (non-deleted) offers with status accepted.
C2_AtMostOneAcceptedOffer ==
    \A r \in DOMAIN requests :
        Cardinality({o \in OffersOf(r) : offers[o].Status = "accepted"}) <= 1

\* C3: of two concurrent acceptOffer calls on the same open request with
\* different offers only one succeeds: a call that read the request while it
\* was open and reaches its transaction after a rival offer has been accepted
\* answers an error and writes nothing.
C3_ConcurrentAcceptsSerialize ==
    [][\A c \in InFlight :
          (/\ acceptServiceOffer_Tx(c)
           /\ c.request.Status = "open"
           /\ RequestFound(c.requestID)
           /\ requests[c.requestID].Status = "in_progress"
           /\ requests[c.requestID].AcceptedOfferID \notin {0, c.offerID})
          => (resp'.code \in ErrorCodes /\ requests' = requests /\ offers' = offers)]_vars

\* C4: an acceptOffer transaction never changes an accepted offer id that is
\* already set.
C4_AcceptedOfferIdNotOverwritten ==
    [][\A c \in InFlight :
          (/\ acceptServiceOffer_Tx(c)
           /\ RequestFound(c.requestID)
           /\ requests[c.requestID].AcceptedOfferID # 0)
          => requests'[c.requestID].AcceptedOfferID = requests[c.requestID].AcceptedOfferID]_vars

\* C5: acceptOffer on a request whose status is not open answers an error and
\* changes no request row and no offer row.
C5_AcceptRequiresOpenRequest ==
    [][\A c \in InFlight :
          (/\ acceptServiceOffer_Tx(c)
           /\ RequestFound(c.requestID)
           /\ requests[c.requestID].Status # "open")
          => (resp'.code \in ErrorCodes /\ requests' = requests /\ offers' = offers)]_vars

\* C6: every change of a request's status is an edge of the transition table,
\* and a request enters in_progress only in an acceptOffer transaction.
C6_StatusChangesFollowTable ==
    [][\A r \in DOMAIN requests :
          requests'[r].Status # requests[r].Status =>
              /\ <<requests[r].Status, requests'[r].Status>> \in TransitionTable
              /\ requests'[r].Status = "in_progress" =>
                    \E c \in InFlight : c.requestID = r /\ acceptServiceOffer_Tx(c)]_vars

\* C7: completed and cancelled are terminal: a request in one of them keeps
\* its status in every later step.
C7_TerminalStatusesStay ==
    [][\A r \in DOMAIN requests :
          requests[r].Status \in {"completed", "cancelled"} =>
              requests'[r].Status = requests[r].Status]_vars

\* C8: a status edit through PUT /api/services/{id} by an actor allowed to edit
\* is accepted (the call goes on to store the requested status) when the
\* requested status equals the current one or the pair is in the transition
\* table, and otherwise answers 400 and leaves the request rows unchanged.
C8_StatusGuard ==
    [][\A u \in Users, r \in DOMAIN requests, s \in RequestStatusInputs :
          (/\ updateServiceRequestHandler_Read(u, r, s)
           /\ RequestFound(r)
           /\ MayEditRequest(u, requests[r]))
          => IF s = requests[r].Status \/ <<requests[r].Status, s>> \in TransitionTable
             THEN /\ resp' = NoResp
                  /\ \E c \in BagToSet(calls') :
                        /\ c.op = "updateServiceRequestHandler"
                        /\ c.requestID = r
                        /\ c.request.Status = s
             ELSE /\ resp'.code = "StatusBadRequest"
                  /\ requests' = requests]_vars

\* C9: an offer whose status is no longer pending keeps that status in every
\* later step.
C9_OfferStatusLeavesPendingOnce ==
    [][\A o \in DOMAIN offers :
          offers[o].Status # "pending" => offers'[o].Status = offers[o].Status]_vars

\* C10: an acceptOffer transaction that answers 200 on an open request leaves
\* the request in_progress and pointing at the target offer, the target offer
\* accepted, exactly one offer of the request accepted and none pending, and
\* the offers of other requests as they were.
C10_AcceptPostcondition ==
    [][\A c \in InFlight :
          (/\ acceptServiceOffer_Tx(c)
           /\ RequestFound(c.requestID)
           /\ requests[c.requestID].Status = "open"
           /\ resp'.code = "StatusOK")
          => /\ requests'[c.requestID].Status = "in_progress"
             /\ requests'[c.requestID].AcceptedOfferID = c.offerID
             /\ offers'[c.offerID].Status = "accepted"
             /\ \A o \in OffersOf(c.requestID) :
                   (o # c.offerID /\ offers[o].Status = "pending")
                       => offers'[o].Status = "rejected"
             /\ Cardinality({o \in OffersOf(c.requestID) : offers'[o].Status = "accepted"}) = 1
             /\ \A o \in OffersOf(c.requestID) : offers'[o].Status # "pending"
             /\ \A o \in DOMAIN offers :
                   offers[o].ServiceRequestID # c.requestID => offers'[o] = offers[o]]_vars

\* C11: an acceptOffer transaction that answers 200 leaves withdrawn every
\* other offer of the request that was withdrawn before it.
C11_AcceptKeepsWithdrawnOffers ==
    [][\A c \in InFlight :
          (acceptServiceOffer_Tx(c) /\ resp'.code = "StatusOK")
          => \A o \in OffersOf(c.requestID) :
                 (o # c.offerID /\ offers[o].Status = "withdrawn")
                     => offers'[o].Status = "withdrawn"]_vars

\* C12: acceptOffer is all-or-nothing.  When its transaction fails, in any of
\* its statements or in the commit, the request rows and the offer rows are
\* what they were before it; and no state shows half of an acceptance: a
\* request in_progress whose accepted offer is still pending, or an accepted
\* offer whose request, pointing at it, is still open.
C12_AcceptAllOrNothing ==
    /\ [][\A c \in InFlight, failed \in 1..4 :
             acceptServiceOffer_TxFails(c, failed)
                 => (requests' = requests /\ offers' = offers)]_vars
    /\ [](\A r \in DOMAIN requests :
             (~requests[r].Deleted /\ OfferFound(requests[r].AcceptedOfferID)) =>
                 LET target == offers[requests[r].AcceptedOfferID]
                 IN /\ ~(requests[r].Status = "in_progress" /\ target.Status = "pending")
                    /\ ~(target.Status = "accepted" /\ requests[r].Status = "open"))

\* C13: an acceptOffer transaction whose target offer is not pending (it is
\* withdrawn, rejected or already accepted) answers an error and changes no
\* request row and no offer row.
C13_AcceptRequiresPendingOffer ==
    [][\A c \in InFlight :
          (/\ acceptServiceOffer_Tx(c)
           /\ OfferFound(c.offerID)
           /\ offers[c.offerID].Status # "pending")
          => (resp'.code \in ErrorCodes /\ requests' = requests /\ offers' = offers)]_vars

\* C14: an accept-offer call on an existing request by an actor who is not its
\* requester, whatever the actor's role, answers 403 and changes no request
\* row and no offer row, and the call ends there.
C14_OnlyRequesterAccepts ==
    [][\A u \in Users, r \in RequestIds, o \in 1..MaxOffers :
          (/\ ops' = ops + 1
           /\ RequestFound(r)
           /\ requests[r].RequesterID # u
           /\ acceptServiceOffer_ReadRequest(u, r, o))
          => /\ resp' = Reply("acceptServiceOffer", "StatusForbidden")
             /\ requests' = requests
             /\ offers' = offers
             /\ calls' = calls]_vars

\* C14 witness: an accept-offer call has just been refused with 403 while the
\* request of an ordinary user exists and offers are on the table.
C14_Witness ==
    /\ resp = Reply("acceptServiceOffer", "StatusForbidden")
    /\ \E r \in DOMAIN requests : ~requests[r].Deleted /\ OffersOf(r) # {}

\* C15: an accept-offer call whose offer belongs to another request answers
\* 400 "Offer does not belong to this request", ends, and changes no request
\* row and no offer row; and in every state a request's accepted offer id,
\* when set, is the id of an offer of that request.
C15_AcceptedOfferBelongsToRequest ==
    /\ [][\A c \in InFlight :
             (/\ acceptServiceOffer_ReadOffer(c)
              /\ OfferFound(c.offerID)
              /\ offers[c.offerID].ServiceRequestID # c.requestID)
             => /\ resp' = ReplyMsg("acceptServiceOffer", "StatusBadRequest",
                                    "Offer does not belong to this request")
                /\ requests' = requests
                /\ offers' = offers
                /\ calls' = calls (-) SetToBag({c})]_vars
    /\ [](\A r \in DOMAIN requests :
             requests[r].AcceptedOfferID # 0 =>
                 /\ requests[r].AcceptedOfferID \in DOMAIN offers
                 /\ offers[requests[r].AcceptedOfferID].ServiceRequestID = r)

\* C15 witness: an accept-offer call has just been refused because its offer
\* belongs to another request, while that other request has accepted it.
C15_Witness ==
    /\ resp = ReplyMsg("acceptServiceOffer", "StatusBadRequest",
                       "Offer does not belong to this request")
    /\ \E r \in DOMAIN requests : requests[r].AcceptedOfferID # 0

\* C16: a submit-offer call with a description on an existing request whose
\* status is not open (in_progress, completed, cancelled, or any other
\* string) answers 400 "Cannot create offer for non-open requests", ends
\* without an insert to come, and changes no request row and no offer row.
C16_SubmitRequiresOpenRequest ==
    [][\A u \in Users, r \in RequestIds :
          (/\ ops' = ops + 1
           /\ RequestFound(r)
           /\ requests[r].Status # "open"
           /\ createServiceOffer_Read(u, r, TRUE))
          => /\ resp' = ReplyMsg("createServiceOffer", "StatusBadRequest",
                                 "Cannot create offer for non-open requests")
             /\ requests' = requests
             /\ offers' = offers
             /\ calls' = calls]_vars

\* C16 witness: a submit-offer call has just been refused for the status of
\* its request, which is cancelled or completed.
C16_Witness ==
    /\ resp = ReplyMsg("createServiceOffer", "StatusBadRequest",
                       "Cannot create offer for non-open requests")
    /\ \E r \in DOMAIN requests :
          ~requests[r].Deleted /\ requests[r].Status \in {"cancelled", "completed"}
    /\ \A r \in DOMAIN requests : requests[r].Status # "open"

\* C17: an offer's status changes to accepted or rejected only in an
\* acceptOffer transaction on its parent request, and to withdrawn only in a
\* withdraw call (which only the offer's provider gets to its write) while the
\* offer is pending; no other step changes an offer's status.
C17_OfferStatusWriters ==
    [][\A o \in DOMAIN offers :
          offers'[o].Status # offers[o].Status =>
              \/ /\ offers'[o].Status \in {"accepted", "rejected"}
                 /\ \E c \in InFlight :
                       /\ c.requestID = offers[o].ServiceRequestID
                       /\ acceptServiceOffer_Tx(c)
              \/ /\ offers'[o].Status = "withdrawn"
                 /\ offers[o].Status = "pending"
                 /\ \E c \in InFlight : c.offerID = o /\ withdrawServiceOffer_Write(c)]_vars

\* C18: a withdraw call by the offer's provider on an offer whose status is
\* not pending (accepted, rejected, or withdrawn by an earlier call) answers
\* an error, ends, and changes no row; a withdraw that answers 200 found the
\* offer pending.
C18_WithdrawRequiresPending ==
    /\ [][\A u \in Users, o \in DOMAIN offers :
             (/\ ops' = ops + 1
              /\ OfferFound(o)
              /\ offers[o].ProviderID = u
              /\ offers[o].Status # "pending"
              /\ withdrawServiceOffer_Read(u, o))
             => /\ resp'.code \in ErrorCodes
                /\ requests' = requests
                /\ offers' = offers
                /\ calls' = calls]_vars
    /\ [][\A c \in InFlight :
             (withdrawServiceOffer_Write(c) /\ resp'.code = "StatusOK")
                 => offers[c.offerID].Status = "pending"]_vars

\* C19: a withdraw call that answers 200 has set the status of its offer to
\* withdrawn and changed nothing else: every other offer row, the other
\* columns of its own row, and every request row (status and accepted offer
\* id included) are as before.
C19_WithdrawFrame ==
    [][\A c \in InFlight :
          (withdrawServiceOffer_Write(c) /\ resp'.code = "StatusOK")
          => /\ offers' = [offers EXCEPT ![c.offerID].Status = "withdrawn"]
             /\ requests' = requests]_vars

\* C19 witness: a withdraw call has just answered 200 on a request that holds
\* a withdrawn offer next to a pending one.
C19_Witness ==
    /\ resp = Reply("withdrawServiceOffer", "StatusOK")
    /\ \E o, p \in DOMAIN offers :
          /\ offers[o].ServiceRequestID = offers[p].ServiceRequestID
          /\ offers[o].Status = "withdrawn" /\ ~offers[o].Deleted
          /\ offers[p].Status = "pending" /\ ~offers[p].Deleted
          /\ requests[offers[o].ServiceRequestID].Status = "open"

\* C20: a submit-offer call by actor u with a description on an open request
\* goes on to its insert as a call of u on that request, also when u already
\* has offers on the request; the insert adds exactly one offer row, pending,
\* with provider u and that request as parent, answers 201, and changes no
\* request row and no offer row that existed.
C20_SubmitInsertsOnePendingOffer ==
    /\ [][\A u \in Users, r \in RequestIds :
             (/\ ops' = ops + 1
              /\ RequestFound(r)
              /\ requests[r].Status = "open"
              /\ createServiceOffer_Read(u, r, TRUE))
             => /\ resp' = NoResp
                /\ requests' = requests
                /\ offers' = offers
                /\ \E c \in BagToSet(calls') :
                      /\ c.op = "createServiceOffer"
                      /\ c.userID = u
                      /\ c.requestID = r
                      /\ calls' = calls (+) SetToBag({c})]_vars
    /\ [][\A c \in InFlight :
             createServiceOffer_Create(c)
             => /\ resp'.code = "StatusCreated"
                /\ Len(offers') = Len(offers) + 1
                /\ \A o \in DOMAIN offers : offers'[o] = offers[o]
                /\ offers'[Len(offers')] =
                      [ServiceRequestID |-> c.requestID, ProviderID |-> c.userID,
                       Status |-> "pending", Deleted |-> FALSE]
                /\ requests' = requests]_vars

\* C20 witness: a submit-offer call has just answered 201 and its provider now
\* has two offers on the same request.
C20_Witness ==
    /\ resp = Reply("createServiceOffer", "StatusCreated")
    /\ Len(offers) = 2
    /\ offers[1].ProviderID = offers[2].ProviderID
    /\ offers[1].ServiceRequestID = offers[2].ServiceRequestID
    /\ ~offers[1].Deleted
    /\ offers[2].Status = "pending"

\* C21: a submit-offer call with an empty description answers 400
\* "service_request_id and description are required", and one with a
\* description for a request that does not exist or is soft-deleted answers
\* 404; either way the call ends there, with no insert to come and no request
\* row or offer row changed.
C21_SubmitValidatesInput ==
    [][\A u \in Users, r \in RequestIds, d \in BOOLEAN :
          (/\ ops' = ops + 1
           /\ (~d \/ ~RequestFound(r))
           /\ createServiceOffer_Read(u, r, d))
          => /\ resp' = IF ~d
                        THEN ReplyMsg("createServiceOffer", "StatusBadRequest",
                                      "service_request_id and description are required")
                        ELSE Reply("createServiceOffer", "StatusNotFound")
             /\ requests' = requests
             /\ offers' = offers
             /\ calls' = calls]_vars

\* C21 witness: a submit-offer call on a soft-deleted request has just been
\* answered 404, and no offer was ever created.
C21_Witness ==
    /\ resp = Reply("createServiceOffer", "StatusNotFound")
    /\ \E r \in DOMAIN requests : requests[r].Deleted
    /\ offers = <<>>

\* C22: a create-request call by actor u with title, description and community
\* appends one request row with status open, no accepted offer and requester
\* u, and answers 201; with one of the three missing it answers 400 and
\* creates no row.  No existing request row and no offer row changes.
C22_CreateRequest ==
    [][\A u \in Users, valid \in BOOLEAN :
          (/\ resp'.op = "createServiceRequest"
           /\ createServiceRequest(u, valid))
          => /\ offers' = offers
             /\ IF valid
                THEN /\ resp'.code = "StatusCreated"
                     /\ Len(requests') = Len(requests) + 1
                     /\ \A r \in DOMAIN requests : requests'[r] = requests[r]
                     /\ requests'[Len(requests')] =
                           [RequesterID |-> u, Status |-> "open",
                            AcceptedOfferID |-> 0, Deleted |-> FALSE]
                ELSE /\ resp'.code = "StatusBadRequest"
                     /\ requests' = requests]_vars

\* C22 witness: a create-request call has just been refused with 400 after an
\* earlier one created an open request without accepted offer.
C22_Witness ==
    /\ resp = Reply("createServiceRequest", "StatusBadRequest")
    /\ Len(requests) = 1
    /\ requests[1].Status = "open"
    /\ requests[1].AcceptedOfferID = 0
    /\ requests[1].RequesterID = 3

\* C23: a step in which an accept-offer or submit-offer call answers an error
\* changes no request row and no offer row: every check came before every
\* write.
C23_ErrorsLeaveRowsAlone ==
    [][(/\ resp'.op \in {"acceptServiceOffer", "createServiceOffer"}
        /\ resp'.code \in ErrorCodes)
       => (requests' = requests /\ offers' = offers)]_vars

\* C24: a soft-deleted request or offer is out of reach.  Its row never
\* changes again (it stays deleted, so no later read finds it); a call that
\* looks it up answers 404, ends, and changes no row; and an acceptOffer
\* transaction on the request of a soft-deleted offer neither accepts nor
\* rejects that offer.
C24_SoftDeletedIsOutOfReach ==
    /\ [][/\ \A r \in DOMAIN requests : requests[r].Deleted => requests'[r] = requests[r]
          /\ \A o \in DOMAIN offers : offers[o].Deleted => offers'[o] = offers[o]]_vars
    /\ [][\A u \in Users, r \in DOMAIN requests :
             (/\ ops' = ops + 1
              /\ requests[r].Deleted
              /\ \/ \E s \in RequestStatusInputs \cup {NoStatus} :
                       \/ updateServiceRequest_Read(u, r, s)
                       \/ updateServiceRequestHandler_Read(u, r, s)
                 \/ deleteServiceRequest_Read(u, r)
                 \/ \E o \in 1..MaxOffers : acceptServiceOffer_ReadRequest(u, r, o)
                 \/ createServiceOffer_Read(u, r, TRUE))
             => /\ resp'.code = "StatusNotFound"
                /\ requests' = requests /\ offers' = offers /\ calls' = calls]_vars
    /\ [][\A u \in Users, o \in DOMAIN offers :
             (/\ ops' = ops + 1
              /\ offers[o].Deleted
              /\ \/ withdrawServiceOffer_Read(u, o)
                 \/ deleteServiceOffer_Read(u, o)
                 \/ \E s \in OfferStatusInputs \cup {NoStatus} :
                       updateServiceOffer_Read(u, o, s))
             => /\ resp'.code = "StatusNotFound"
                /\ requests' = requests /\ offers' = offers /\ calls' = calls]_vars
    /\ [][\A c \in InFlight :
             (/\ acceptServiceOffer_ReadOffer(c)
              /\ c.offerID \in DOMAIN offers
              /\ offers[c.offerID].Deleted)
             => /\ resp'.code = "StatusNotFound"
                /\ requests' = requests /\ offers' = offers
                /\ calls' = calls (-) SetToBag({c})]_vars

\* C25: an edit call (on /api/service-requests or on /api/services) or a
\* delete call on an existing request by an actor who is neither its
\* requester nor an admin nor a super_admin answers 403, ends, and changes no
\* request row and no offer row.
C25_OnlyRequesterOrAdminEdits ==
    [][\A u \in Users, r \in RequestIds :
          (/\ ops' = ops + 1
           /\ RequestFound(r)
           /\ requests[r].RequesterID # u
           /\ Role[u] \notin {"admin", "super_admin"}
           /\ \/ \E s \in RequestStatusInputs \cup {NoStatus} :
                    \/ updateServiceRequest_Read(u, r, s)
                    \/ updateServiceRequestHandler_Read(u, r, s)
              \/ deleteServiceRequest_Read(u, r))
          => /\ resp'.code = "StatusForbidden"
             /\ requests' = requests
             /\ offers' = offers
             /\ calls' = calls]_vars

\* C25 witness: an edit call on /api/services has just been refused with 403
\* on the request of an admin.
C25_Witness ==
    /\ resp = Reply("updateServiceRequestHandler", "StatusForbidden")
    /\ \E r \in DOMAIN requests : ~requests[r].Deleted /\ Role[requests[r].RequesterID] = "admin"

\* ---- C26, C27: the read paths, under SpecRead

Lower(text) == [i \in DOMAIN text |-> Fold(text[i])]

\* sub occurs in text as a run of consecutive characters
Substring(sub, text) ==
    \E k \in 0..(Len(text) - Len(sub)) :
        \A i \in 1..Len(sub) : text[k + i] = sub[i]

\* the ids in S, largest (newest) first
RECURSIVE NewestFirst(_)
NewestFirst(S) ==
    IF S = {} THEN <<>>
    ELSE LET m == CHOOSE x \in S : \A y \in S : y <= x
         IN <<m>> \o NewestFirst(S \ {m})

\* the list the filters describe
Listed(communityID, status, category, search) ==
    NewestFirst({i \in DOMAIN requests :
        /\ ~requests[i].Deleted
        /\ communityID # 0 => requests[i].CommunityID = communityID
        /\ status # "" => requests[i].Status = status
        /\ category # "" => requests[i].Category = category
        /\ search # <<>> =>
              \/ Substring(Lower(search), Lower(requests[i].Title))
              \/ Substring(Lower(search), Lower(requests[i].Description))})

\* C26: a list call with any subset of the filters community_id, status,
\* category and search, on /api/services and on /api/service-requests, answers
\* exactly the requests that are not deleted and satisfy every filter given,
\* search being a case-insensitive substring of the title or of the
\* description, newest first.
C26_ListAnswersTheFilters ==
    [][\A communityID \in CommunityQueries, status \in StatusQueries,
          category \in CategoryQueries, search \in SearchQueries :
          /\ (\E driver \in Drivers :
                 getServicesHandler(category, status, communityID, search, driver))
                => resp'.body = Listed(communityID, status, category, search)
          /\ listServiceRequests(communityID, status, category, search)
                => resp'.body = Listed(communityID, status, category, search)]_vars

ReadOps ==
    {"getServicesHandler", "getServiceByIDHandler", "listServiceRequests",
     "getServiceRequest", "listServiceOffers", "getServiceOffer"}

\* C27: the read calls (one request, the request list, one offer, the offer
\* list) leave every request row and every offer row as they were.
C27_ReadsLeaveTheStore ==
    [][resp'.op \in ReadOps => requests' = requests /\ offers' = offers]_vars

\* C27: a list call answered two requests and the store holds an offer too
C27_Witness ==
    /\ resp.op \in {"listServiceRequests", "getServicesHandler"}
    /\ Len(resp.body) = 2
    /\ offers # <<>>

\* ---- C28..C30: races with acceptOffer, under Spec

\* C28: in every reachable state, the states between the read and the write
\* of a withdrawOffer that runs beside an acceptOffer on the same offer
\* included, a request whose accepted_offer_id is set points at an offer whose
\* status is accepted; in particular no in_progress request points at a
\* withdrawn, rejected or pending offer.
C28_AcceptedPointerTargetsAcceptedOffer ==
    \A r \in DOMAIN requests :
        (~requests[r].Deleted /\ requests[r].AcceptedOfferID # 0) =>
            /\ requests[r].AcceptedOfferID \in DOMAIN offers
            /\ offers[requests[r].AcceptedOfferID].Status = "accepted"

\* C29: once no call is in progress (a submitOffer that ran beside an
\* acceptOffer or a status edit of the same request has completed, and so has
\* its rival), every pending offer belongs to a request whose status is open.
C29_PendingOffersOnOpenRequestsOnly ==
    calls = EmptyBag =>
        \A o \in DOMAIN offers :
            (~offers[o].Deleted /\ offers[o].Status = "pending") =>
                requests[offers[o].ServiceRequestID].Status = "open"

\* C30: the write of an edit call that supplies no status (only title,
\* description, category or budget), on PUT /api/service-requests/{id} and on
\* PUT /api/services/{id}, leaves the status and the accepted_offer_id of the
\* request as they are in the table, whatever an acceptOffer has written
\* there since the edit call read the row.
C30_FieldEditKeepsStatusAndPointer ==
    [][\A c \in InFlight :
          (/\ c.input = NoStatus
           /\ updateServiceRequest_Write(c) \/ updateServiceRequestHandler_Save(c))
          => /\ requests'[c.requestID].Status = requests[c.requestID].Status
             /\ requests'[c.requestID].AcceptedOfferID
                    = requests[c.requestID].AcceptedOfferID]_vars

\* ---- C31..C33, under Spec

\* C31: the two update endpoints treat a status edit alike: for every request
\* the tables can hold and every status a client can send, the status that
\* PUT /api/services/{id} leaves in the row (the requested one when its status
\* block accepts the edit, the current one when it rejects it) is the status
\* that PUT /api/service-requests/{id} leaves in the row.
C31_UpdateEndpointsAgreeOnStatus ==
    \A id \in DOMAIN requests, newStatus \in RequestStatusInputs :
        RequestFound(id) =>
            LET edit == StatusEdit(requests[id].Status, newStatus)
                viaServices == IF edit.ok THEN edit.status ELSE requests[id].Status
                viaServiceRequests == UpdateRequestStatus(id, newStatus)[id].Status
            IN viaServices = viaServiceRequests

\* C32: in every reachable state every request's status is one of open,
\* in_progress, completed, cancelled and every offer's status is one of
\* pending, accepted, rejected, withdrawn, whatever status strings the edit
\* calls were given.
C32_StatusesStayInTheirEnums ==
    /\ \A r \in DOMAIN requests :
           requests[r].Status \in {"open", "in_progress", "completed", "cancelled"}
    /\ \A o \in DOMAIN offers :
           offers[o].Status \in {"pending", "accepted", "rejected", "withdrawn"}

\* C33: a delete call on an offer whose status is accepted is refused and
\* changes nothing, and in every reachable state, the states where a delete
\* call has checked the offer's status and an acceptOffer runs before it
\* deletes included, no request's accepted_offer_id names a soft-deleted
\* offer.
C33_AcceptedOfferIsNotDeleted ==
    /\ [][\A u \in Users, o \in 1..MaxOffers :
             (/\ ops' = ops + 1
              /\ deleteServiceOffer_Read(u, o)
              /\ OfferFound(o)
              /\ offers[o].Status = "accepted")
             => /\ resp'.code \in ErrorCodes
                /\ calls' = calls]_vars
    /\ [](\A r \in DOMAIN requests :
             (~requests[r].Deleted /\ requests[r].AcceptedOfferID \in DOMAIN offers)
                 => ~offers[requests[r].AcceptedOfferID].Deleted)

\* ---- C34..C36: join requests, under SpecJoin

\* C34: a join request is processed once: the save of an approve or reject
\* call writes approved or rejected only over a row that is pending, also when
\* two such calls run side by side, and a call that finds the row approved or
\* rejected answers "This request has already been processed" and changes
\* nothing.
C34_JoinRequestProcessedOnce ==
    /\ [][\A c \in InFlight :
             (approveJoinRequestHandler_Save(c) \/ rejectJoinRequestHandler_Save(c))
                 => joinRequests[c.requestID].Status = "pending"]_vars
    /\ [][\A u \in Users, id \in 1..MaxJoinRequests :
             (/\ ops' = ops + 1
              /\ approveJoinRequestHandler_Read(u, id) \/ rejectJoinRequestHandler_Read(u, id)
              /\ IsAdmin(u)
              /\ JoinRequestFound(id)
              /\ joinRequests[id].Status # "pending")
             => /\ resp'.message = "This request has already been processed"
                /\ UNCHANGED <<joinRequests, userCommunities, calls>>]_vars

\* C35: when an approve call completes, either it answers 200, the join
\* request is approved and the membership row of its (user, community) was
\* inserted by this call, or creating the membership failed, it answers 500,
\* the join request is pending and the call inserted no membership.
C35_ApprovedIffMembershipCreated ==
    [][\A c \in InFlight :
          LET key == <<c.joinRequest.UserID, c.joinRequest.CommunityID>>
          IN /\ (\E failed \in BOOLEAN :
                    /\ approveJoinRequestHandler_Create(c, failed)
                    /\ resp'.code = "StatusOK")
                 => /\ joinRequests'[c.requestID].Status = "approved"
                    /\ key \in userCommunities' \ userCommunities
             /\ approveJoinRequestHandler_Revert(c)
                 => /\ joinRequests'[c.requestID].Status = "pending"
                    /\ userCommunities' = userCommunities]_vars

\* the pending join requests of user u for community m
PendingJoinRequests(u, m) ==
    {i \in DOMAIN joinRequests : joinRequests[i] = JoinRequest(u, m, "pending")}

\* C36: in every reachable state, the states reached by two createJoinRequest
\* calls of one user running side by side included, a user has at most one
\* pending join request per community, and the insert of a join request never
\* happens for a user who is a member of the community.
C36_OnePendingJoinRequest ==
    /\ [](\A u \in Users, m \in CommunityIds :
             Cardinality(PendingJoinRequests(u, m)) <= 1)
    /\ [][\A c \in InFlight :
             createJoinRequestHandler_Create(c)
                 => <<c.userID, c.communityID>> \notin userCommunities]_vars

====
